---- MODULE Spec2Model ----
(***************************************************************************)
(* Command/response transport of sel-device-mcp: the serial and telnet     *)
(* connectors (src/device), the HTTP routes that drive one global          *)
(* connector (src/server/routes.py) and the MCP wrapper (src/core/mcp.py). *)
(*                                                                         *)
(* Time is counted in poll intervals: one tick is one time.sleep(0.01) of  *)
(* the serial read loop, and a timeout of T is T ticks.                    *)
(***************************************************************************)
EXTENDS Integers, Sequences, FiniteSets, TLC

VARIABLES
    objs,       \* connector objects: slot -> fields of a Serial/TelnetConnector
    handles,    \* transport handles (serial.Serial / TelnetStream objects)
    current,    \* the reference callers reach the connector through
                \* (routes.current_connection, MCP.connector); 0 is None
    th,         \* per caller thread: position inside send_command and its locals
    last        \* outcome of the call that completed last

vars == <<objs, handles, current, th, last>>

-----------------------------------------------------------------------------
(* Bounds of the model *)

MaxHandles == 2     \* transport objects alive at once
MaxObjs    == 2     \* connector objects alive at once
MaxRx      == 1     \* bytes the transport's input buffer holds
MaxTimeout == 2     \* largest timeout, in poll-interval ticks
MaxCycles  == 2     \* connect/disconnect cycles of one connector that are counted

Threads == {1, 2}
Handles == 1..MaxHandles
Objs    == 1..MaxObjs

None      == 0
NoTimeout == -1     \* timeout=None
Timeouts  == 0..MaxTimeout

\* bytes a device emits in the model: "\n", ">", "O"
DeviceBytes == {10, 62, 79}

-----------------------------------------------------------------------------
(* Text: decoding and the prompt matcher *)

\* bytes.decode('utf-8', errors='replace') of ONE byte, as the read loop calls it
Decode1(b) ==
    CASE b = 10 -> "\n"
      [] b = 32 -> " "
      [] b = 61 -> "="
      [] b = 62 -> ">"
      [] b = 79 -> "O"
      [] OTHER  -> "U+FFFD"

\* a prompt pattern is lit followed, when anchored, by \s*$
Pat(lit, anchored) == [lit |-> lit, anchored |-> anchored]

DEFAULT_PROMPTS == << Pat(<<"=", ">">>, TRUE), Pat(<<">">>, TRUE) >>

\* [">"], the factory's default
FACTORY_PROMPTS == << Pat(<<">">>, FALSE) >>

\* the prompts argument of a constructor: not given (None) or a list
PromptArg(given, pats) == [given |-> given, pats |-> pats]
NoPrompts == PromptArg(FALSE, <<>>)

\* the arguments callers supply in the model
PromptArgs ==
    { NoPrompts, PromptArg(TRUE, <<>>), PromptArg(TRUE, FACTORY_PROMPTS),
      PromptArg(TRUE, << Pat(<<"O">>, FALSE), Pat(<<">">>, TRUE) >>) }

IsSpace(c) == c \in {"\n", " "}

\* the pattern matches text starting at position k
MatchAt(p, text, k) ==
    /\ k + Len(p.lit) - 1 <= Len(text)
    /\ \A j \in 1..Len(p.lit) : text[k + j - 1] = p.lit[j]
    /\ p.anchored => \A i \in (k + Len(p.lit))..Len(text) : IsSpace(text[i])

\* re.compile('|'.join(prompts)).search(text); the empty join is the empty
\* regex, which matches every text
prompt_search(prompts, text) ==
    IF prompts = <<>> THEN TRUE
    ELSE \E i \in 1..Len(prompts) :
            \E k \in 1..(Len(text) + 1) : MatchAt(prompts[i], text, k)

\* SerialConnector.__init__: prompts if prompts is not None else DEFAULT_PROMPTS
Serial_init_prompts(arg) == IF ~arg.given THEN DEFAULT_PROMPTS ELSE arg.pats

-----------------------------------------------------------------------------
(* Objects *)

NoExc == [cls |-> "none", why |-> "none"]
Exc(cls, why) == [cls |-> cls, why |-> why]

FreeHandle == [st |-> "free", broken |-> FALSE, rx |-> <<>>, stale |-> 0]
NewHandle(st) == [st |-> st, broken |-> FALSE, rx |-> <<>>, stale |-> 0]

\* cycles is history only: the connect/disconnect cycles the object has been
\* through, as far as the model keeps count
NoObj ==
    [kind |-> "none", transport |-> None, timeout |-> 0, prompts |-> <<>>,
     cycles |-> 0]

\* SerialConnector(port, baudrate, timeout, prompts)
SerialConnector(timeout, promptArg) ==
    [kind |-> "serial", transport |-> None, timeout |-> timeout,
     prompts |-> Serial_init_prompts(promptArg), cycles |-> 0]

\* TelnetConnector(host, port, timeout)
TelnetConnector(timeout) ==
    [kind |-> "telnet", transport |-> None, timeout |-> timeout, prompts |-> <<>>,
     cycles |-> 0]

IdleThread ==
    [pc |-> "idle", obj |-> None, via |-> "none", req |-> NoTimeout,
     tmo |-> NoTimeout, eff |-> 0, elapsed |-> 0, response |-> <<>>, consumed |-> <<>>, staleRead |-> 0,
     io |-> <<>>, conn0 |-> FALSE, stale0 |-> 0]

NoLast ==
    [op |-> "none", exc |-> NoExc, text |-> <<>>, http |-> 0, eff |-> 0,
     elapsed |-> 0, consumed |-> <<>>, staleRead |-> 0, io |-> <<>>,
     conn0 |-> FALSE, stale0 |-> 0]

\* the connector holds a transport object and that transport is open:
\* the negation of the guard of send_command
IsOpen(hs, h) == h # None /\ hs[h].st = "open"
Connected(os, hs, o) == os[o].transport # None /\ IsOpen(hs, os[o].transport)

\* a connector object some caller can still reach
ObjLive(cur, ths, o) ==
    o # None /\ (o = cur \/ \E t \in Threads : ths[t].pc # "idle" /\ ths[t].obj = o)

HandleReferenced(os, cur, ths, h) ==
    \E o \in Objs : ObjLive(cur, ths, o) /\ os[o].transport = h

OpenHandles(hs) == {h \in Handles : hs[h].st = "open"}

\* model housekeeping: an unreachable connector object and a closed, unreachable
\* transport object are forgotten (their slots can be used again); of an open
\* transport nothing refers to, only that it is open is kept
GcObjs(os, cur, ths) == [o \in Objs |-> IF ObjLive(cur, ths, o) THEN os[o] ELSE NoObj]
GcHandles(os, hs, cur, ths) ==
    [h \in Handles |->
        IF HandleReferenced(GcObjs(os, cur, ths), cur, ths, h) THEN hs[h]
        ELSE IF hs[h].st = "open" THEN NewHandle("open") ELSE FreeHandle]

\* the slot a newly constructed transport object of connector o takes: any
\* slot that holds no open transport and that no other connector refers to
FreeSlots(os, hs, cur, ths, o) ==
    {h \in Handles : hs[h].st # "open"
                      /\ (HandleReferenced(os, cur, ths, h) => os[o].transport = h)}
CanAlloc(os, hs, cur, ths, o) == FreeSlots(os, hs, cur, ths, o) # {}
AllocHandle(os, hs, cur, ths, o) ==
    CHOOSE h \in FreeSlots(os, hs, cur, ths, o) :
        \A g \in FreeSlots(os, hs, cur, ths, o) : h <= g

\* a transport operation on h raises (serial.SerialException): the port was
\* closed, or the link broke under an open port
Fails(hs, h) == hs[h].st # "open" \/ hs[h].broken

-----------------------------------------------------------------------------
(* connect and disconnect of the two connectors, as functions of the object
   store: each yields the new objects, the new handles and what was raised *)

Outcome(os, hs, exc) == [objs |-> os, handles |-> hs, exc |-> exc]

\* a connect that opens a port only when the connector never held one
Serial_connect_Once(os, hs, cur, ths, o, ok) ==
    IF ok /\ os[o].transport = None
    THEN LET h == AllocHandle(os, hs, cur, ths, o)
         IN  Outcome([os EXCEPT ![o].transport = h],
                     [hs EXCEPT ![h] = NewHandle("open")], NoExc)
    ELSE IF ok THEN Outcome(os, hs, NoExc)
    ELSE Outcome(os, hs, Exc("SerialConnectionError", "open"))

\* SerialConnector.connect: self.serial = serial.Serial(...) opens the port in
\* the constructor; when that raises, self.serial keeps its old value.
\* ok: whether the operating system lets the port be opened.
Serial_connect(os, hs, cur, ths, o, ok) ==
    IF ok
    THEN LET h == AllocHandle(os, hs, cur, ths, o)
         IN  Outcome([os EXCEPT ![o].transport = h],
                     [hs EXCEPT ![h] = NewHandle("open")], NoExc)
    ELSE Outcome(os, hs, Exc("SerialConnectionError", "open"))

\* a disconnect that tests is_open without first testing self.serial
Serial_disconnect_Unguarded(os, hs, o) ==
    IF os[o].transport = None
    THEN Outcome(os, hs, Exc("AttributeError", "none_transport"))
    ELSE IF hs[os[o].transport].st = "open"
    THEN Outcome(os, [hs EXCEPT ![os[o].transport] = NewHandle("closed")], NoExc)
    ELSE Outcome(os, hs, NoExc)

\* SerialConnector.disconnect
Serial_disconnect(os, hs, o) ==
    IF os[o].transport # None /\ hs[os[o].transport].st = "open"
    THEN Outcome(os, [hs EXCEPT ![os[o].transport] = NewHandle("closed")], NoExc)
    ELSE Outcome(os, hs, NoExc)

\* TelnetConnector.connect: self.telnet is assigned the new stream before
\* open() is called, and what open() raises is not caught
Telnet_connect(os, hs, cur, ths, o, ok) ==
    LET h == AllocHandle(os, hs, cur, ths, o)
    IN  Outcome([os EXCEPT ![o].transport = h],
                [hs EXCEPT ![h] = NewHandle(IF ok THEN "open" ELSE "closed")],
                IF ok THEN NoExc ELSE Exc("TransportError", "open"))

\* TelnetConnector.disconnect
Telnet_disconnect(os, hs, o) ==
    IF os[o].transport # None
    THEN Outcome([os EXCEPT ![o].transport = None],
                 [hs EXCEPT ![os[o].transport] = NewHandle("closed")], NoExc)
    ELSE Outcome(os, hs, NoExc)

\* Connector.connect / Connector.disconnect, dispatched on the variant
Connector_connect(os, hs, cur, ths, o, ok) ==
    IF os[o].kind = "serial" THEN Serial_connect(os, hs, cur, ths, o, ok)
    ELSE Telnet_connect(os, hs, cur, ths, o, ok)

Connector_disconnect(os, hs, o) ==
    IF os[o].kind = "serial" THEN Serial_disconnect(os, hs, o)
    ELSE Telnet_disconnect(os, hs, o)

-----------------------------------------------------------------------------
(* send_command *)

\* a guard that tests self.serial only, not is_open
Serial_send_guard_NoneOnly(os, hs, o) == os[o].transport = None

\* the guard of SerialConnector.send_command: TRUE when the call is refused
Serial_send_guard(os, hs, o) ==
    os[o].transport = None \/ hs[os[o].transport].st # "open"

\* the guard of TelnetConnector.send_command
Telnet_send_guard(os, hs, o) ==
    os[o].transport = None \/ hs[os[o].transport].st # "open"

Send_guard(os, hs, o) ==
    IF os[o].kind = "serial" THEN Serial_send_guard(os, hs, o)
    ELSE Telnet_send_guard(os, hs, o)

NotConnectedExc(os, o) ==
    IF os[o].kind = "serial" THEN Exc("SerialConnectionError", "not_connected")
    ELSE Exc("ConnectionError", "not_connected")

\* routes.py line 11 imports ConnectionError and TimeoutError from
\* device.connector: the names stand for that module's two error classes
RouteCatches(name, cls) ==
    \/ name = "ConnectionError" /\ cls = "SerialConnectionError"
    \/ name = "TimeoutError" /\ cls = "SerialTimeoutError"
    \/ name = "Exception" /\ cls # "none"

\* a handler that drops the connection on every failed command
Route_command_resets_OnAnyError(exc) == exc # NoExc

\* the except clauses of routes.send_command, in order: the HTTP status and
\* whether current_connection is reset
Route_command_status(exc) ==
    IF exc = NoExc THEN 200
    ELSE IF RouteCatches("TimeoutError", exc.cls) THEN 408
    ELSE IF RouteCatches("ConnectionError", exc.cls) THEN 400
    ELSE 500

Route_command_resets(exc) ==
    /\ exc # NoExc
    /\ ~RouteCatches("TimeoutError", exc.cls)
    /\ RouteCatches("ConnectionError", exc.cls)

\* the transport operations of one call, in the order they first happen
Logged(io, op) == IF io # <<>> /\ io[Len(io)] = op THEN io ELSE Append(io, op)

\* what the caller of a finished call sees
Result(r, op, exc, text, http) ==
    [op |-> op, exc |-> exc, text |-> text, http |-> http, eff |-> r.eff,
     elapsed |-> r.elapsed, consumed |-> r.consumed, staleRead |-> r.staleRead,
     io |-> r.io, conn0 |-> r.conn0, stale0 |-> r.stale0]

\* send_command of thread t ends (returns text or raises exc) with locals r and
\* transports hs; a call that came through POST /command ends in the route's
\* handler
Finish(t, r, exc, text, hs) ==
    LET api  == r.via = "api"
        cur2 == IF api /\ Route_command_resets(exc) THEN None ELSE current
        ths2 == [th EXCEPT ![t] = IdleThread]
    IN  /\ th' = ths2
        /\ current' = cur2
        /\ last' = Result(r, "send", exc, text,
                             IF api THEN Route_command_status(exc) ELSE 0)
        /\ objs' = GcObjs(objs, cur2, ths2)
        /\ handles' = GcHandles(objs, [h \in Handles |-> [hs[h] EXCEPT !.stale = 0]],
                                cur2, ths2)

\* the call goes on to its next step
Goto(t, r, hs) ==
    /\ th' = [th EXCEPT ![t] = r]
    /\ handles' = hs
    /\ UNCHANGED <<objs, current, last>>

\* send_command(command, timeout) is entered on connector o: the guard, and
\* for the record the bytes that are in the input buffer at this moment.
\* req: the timeout of the caller's request (NoTimeout when it carries none),
\* tmo: the timeout argument send_command is called with
Enter(t, o, via, req, tmo) ==
    LET r0 == [IdleThread EXCEPT !.obj = o, !.via = via, !.req = req, !.tmo = tmo,
                                 !.conn0 = Connected(objs, handles, o),
                                 !.stale0 = IF objs[o].transport = None THEN 0
                                            ELSE Len(handles[objs[o].transport].rx)]
    IN  IF Send_guard(objs, handles, o)
        THEN Finish(t, r0, NotConnectedExc(objs, o), <<>>, handles)
        ELSE LET h == objs[o].transport
             IN  /\ th' = [th EXCEPT ![t] =
                     [r0 EXCEPT !.pc = IF objs[o].kind = "serial" THEN "clear"
                                        ELSE "listen"]]
                 /\ handles' = [handles EXCEPT ![h].stale = Len(handles[h].rx)]
                 /\ last' = NoLast
                 /\ UNCHANGED <<objs, current>>

\* what a failed transport operation of connector o surfaces as: the serial
\* connector wraps serial.SerialException, the telnet connector lets the
\* library's exception through
IoExc(os, o) ==
    IF os[o].transport = None THEN Exc("AttributeError", "none_transport")
    ELSE IF os[o].kind = "serial" THEN Exc("SerialConnectionError", "io")
    ELSE Exc("TransportError", "io")

OpFails(os, hs, o) == os[o].transport = None \/ Fails(hs, os[o].transport)

\* the timeout of the read: the call's own, or the connector's default
EffectiveTimeout(os, o, tmo) == IF tmo # NoTimeout THEN tmo ELSE os[o].timeout

\* an input clear that drops nothing
reset_input_buffer_Skipped(port) == port

\* serial.Serial.reset_input_buffer(): what the port has buffered is dropped
reset_input_buffer(port) == [port EXCEPT !.rx = <<>>, !.stale = 0]

\* TelnetStream.listen(wait_time=50), used to clear the pending input
listen(stream) == [stream EXCEPT !.rx = <<>>, !.stale = 0]

\* self.serial.reset_input_buffer()
Clear(t) ==
    LET r == [th[t] EXCEPT !.io = Logged(th[t].io, "clear")]
        o == r.obj
        h == objs[o].transport
    IN  /\ th[t].pc = "clear"
        /\ IF OpFails(objs, handles, o)
           THEN Finish(t, r, IoExc(objs, o), <<>>, handles)
           ELSE Goto(t, [r EXCEPT !.pc = "write"],
                     [handles EXCEPT ![h] = reset_input_buffer(handles[h])])

\* a send_command that reads the port before it writes the command
Write_ReadFirst(t) ==
    LET r == [th[t] EXCEPT !.io = Logged(Logged(th[t].io, "read"), "write")]
        o == r.obj
    IN  /\ th[t].pc = "write"
        /\ IF OpFails(objs, handles, o)
           THEN Finish(t, r, IoExc(objs, o), <<>>, handles)
           ELSE Goto(t, [r EXCEPT !.pc = "flush"], handles)

\* self.serial.write(encoded_command)
Write(t) ==
    LET r == [th[t] EXCEPT !.io = Logged(th[t].io, "write")]
        o == r.obj
    IN  /\ th[t].pc = "write"
        /\ IF OpFails(objs, handles, o)
           THEN Finish(t, r, IoExc(objs, o), <<>>, handles)
           ELSE Goto(t, [r EXCEPT !.pc = "flush"], handles)

\* a read loop whose buffer starts with what the call before it had read
Flush_SharedBuffer(t) ==
    LET r == [th[t] EXCEPT !.io = Logged(th[t].io, "flush")]
        o == r.obj
    IN  /\ th[t].pc = "flush"
        /\ IF OpFails(objs, handles, o)
           THEN Finish(t, r, IoExc(objs, o), <<>>, handles)
           ELSE Goto(t, [r EXCEPT !.pc = "iter",
                                  !.eff = EffectiveTimeout(objs, o, r.tmo),
                                  !.elapsed = 0,
                                  !.response = [i \in 1..Len(last.consumed) |->
                                                   Decode1(last.consumed[i])]],
                     handles)

\* self.serial.flush(), then the first lines of _read_until_prompt: the
\* timeout is chosen, the response is empty and the clock starts
Flush(t) ==
    LET r == [th[t] EXCEPT !.io = Logged(th[t].io, "flush")]
        o == r.obj
    IN  /\ th[t].pc = "flush"
        /\ IF OpFails(objs, handles, o)
           THEN Finish(t, r, IoExc(objs, o), <<>>, handles)
           ELSE Goto(t, [r EXCEPT !.pc = "iter",
                                  !.eff = EffectiveTimeout(objs, o, r.tmo),
                                  !.elapsed = 0, !.response = <<>>],
                     handles)

\* a timeout test that allows one more poll interval
TimedOut_LateByOne(elapsed, timeout) == elapsed > timeout + 1

\* a return that cuts the last character (the prompt) off the response
Returned_PromptTrimmed(full_response) ==
    SubSeq(full_response, 1, Len(full_response) - 1)

\* the timeout test at the head of the loop
TimedOut(elapsed, timeout) == elapsed > timeout

\* the text _read_until_prompt returns once the prompt is found
Returned(full_response) == full_response

\* one iteration of the loop of _read_until_prompt up to its sleep: the timeout
\* test, in_waiting, read() of one byte, decode, append, prompt search
Iter(t) ==
    LET r == th[t]
        o == r.obj
        h == objs[o].transport
    IN  /\ r.pc = "iter"
        /\ IF TimedOut(r.elapsed, r.eff)
           THEN Finish(t, r, Exc("SerialTimeoutError", "timeout"), <<>>, handles)
           ELSE IF OpFails(objs, handles, o)
           THEN Finish(t, [r EXCEPT !.io = Logged(r.io, "read")],
                       IoExc(objs, o), <<>>, handles)
           ELSE IF handles[h].rx # <<>>
           THEN LET b    == Head(handles[h].rx)
                    full == Append(r.response, Decode1(b))
                    r2   == [r EXCEPT !.io = Logged(r.io, "read"),
                                      !.response = full,
                                      !.consumed = Append(r.consumed, b),
                                      !.staleRead = r.staleRead +
                                         (IF handles[h].stale > 0 THEN 1 ELSE 0)]
                    hs2  == [handles EXCEPT ![h].rx = Tail(handles[h].rx),
                                ![h].stale = IF handles[h].stale > 0
                                             THEN handles[h].stale - 1 ELSE 0]
                IN  IF prompt_search(objs[o].prompts, full)
                    THEN Finish(t, r2, NoExc, Returned(full), hs2)
                    ELSE Goto(t, [r2 EXCEPT !.pc = "sleep"], hs2)
           ELSE Goto(t, [r EXCEPT !.io = Logged(r.io, "read"), !.pc = "sleep"],
                     handles)

\* a sleep during which the clock stands still
Sleep_Frozen(t) ==
    /\ th[t].pc = "sleep"
    /\ Goto(t, [th[t] EXCEPT !.pc = "iter"], handles)

\* time.sleep(0.01): one tick
Sleep(t) ==
    /\ th[t].pc = "sleep"
    /\ Goto(t, [th[t] EXCEPT !.pc = "iter", !.elapsed = th[t].elapsed + 1], handles)

\* self.telnet.listen(wait_time=50): the pending input is drained
Listen(t) ==
    LET r == [th[t] EXCEPT !.io = Logged(th[t].io, "clear")]
        o == r.obj
        h == objs[o].transport
    IN  /\ th[t].pc = "listen"
        /\ IF OpFails(objs, handles, o)
           THEN Finish(t, r, IoExc(objs, o), <<>>, handles)
           ELSE Goto(t, [r EXCEPT !.pc = "send"],
                     [handles EXCEPT ![h] = listen(handles[h])])

\* SelAscii(self.telnet).send(command, read_timeout): the command is written
ProtocolSend(t) ==
    LET r == [th[t] EXCEPT !.io = Logged(th[t].io, "write")]
        o == r.obj
    IN  /\ th[t].pc = "send"
        /\ IF OpFails(objs, handles, o)
           THEN Finish(t, r, IoExc(objs, o), <<>>, handles)
           ELSE Goto(t, [r EXCEPT !.pc = "wait"], handles)

\* byte-wise decoding of a byte string
RECURSIVE DecodeAll(_)
DecodeAll(bs) == IF bs = <<>> THEN <<>> ELSE <<Decode1(Head(bs))>> \o DecodeAll(Tail(bs))

\* SelAscii.send returns what the device answered, or its read times out
ProtocolWait(t) ==
    LET r == [th[t] EXCEPT !.io = Logged(th[t].io, "read")]
        o == r.obj
        h == objs[o].transport
    IN  /\ th[t].pc = "wait"
        /\ IF OpFails(objs, handles, o)
           THEN Finish(t, r, IoExc(objs, o), <<>>, handles)
           ELSE \/ /\ handles[h].rx # <<>>
                   /\ Finish(t, [r EXCEPT !.consumed = handles[h].rx,
                                          !.staleRead = handles[h].stale],
                             NoExc, DecodeAll(handles[h].rx),
                             [handles EXCEPT ![h].rx = <<>>, ![h].stale = 0])
                \/ Finish(t, r, Exc("TransportTimeout", "timeout"), <<>>, handles)

-----------------------------------------------------------------------------
(* The environment: the device, the link and the garbage collector *)

\* the device sends one byte out of bytes; it arrives in the input buffer of
\* the transport
DeviceEmit(bytes) ==
    \E h \in Handles, b \in bytes :
        /\ handles[h].st = "open" /\ ~handles[h].broken
        /\ HandleReferenced(objs, current, th, h)
        /\ Len(handles[h].rx) < MaxRx
        /\ handles' = [handles EXCEPT ![h].rx = Append(handles[h].rx, b)]
        /\ UNCHANGED <<objs, current, th, last>>

\* the link breaks under an open transport (cable pulled, connection reset):
\* is_open stays true and every further operation raises
TransportBreak ==
    \E h \in Handles :
        /\ handles[h].st = "open" /\ ~handles[h].broken
        /\ HandleReferenced(objs, current, th, h)
        /\ handles' = [handles EXCEPT ![h].broken = TRUE]
        /\ UNCHANGED <<objs, current, th, last>>

\* a transport object nothing refers to any more is finalized at a moment the
\* runtime picks, which closes it
Finalize ==
    \E h \in Handles :
        /\ handles[h].st = "open"
        /\ ~HandleReferenced(objs, current, th, h)
        /\ handles' = [handles EXCEPT ![h] = FreeHandle]
        /\ UNCHANGED <<objs, current, th, last>>

Env == DeviceEmit(DeviceBytes) \/ TransportBreak \/ Finalize

-----------------------------------------------------------------------------
(* Calls made on the connector itself (MCP.connect, MCP.disconnect,
   MCP.send_command of src/core/mcp.py, or any direct user of the class) *)

\* connector.connect()
Connect(t) ==
    /\ th[t].pc = "idle" /\ current # None
    /\ \E ok \in BOOLEAN :
        /\ (ok \/ objs[current].kind = "telnet")
              => CanAlloc(objs, handles, current, th, current)
        /\ LET out == Connector_connect(objs, handles, current, th, current, ok)
           IN  /\ objs' = GcObjs(out.objs, current, th)
               /\ handles' = GcHandles(out.objs, out.handles, current, th)
               /\ last' = Result(IdleThread, "connect", out.exc, <<>>, 0)
    /\ UNCHANGED <<current, th>>

\* connector.disconnect(); count: the cycles up to which the model keeps the
\* history of the object
Disconnect(t, count) ==
    /\ th[t].pc = "idle" /\ current # None
    /\ LET out == Connector_disconnect(objs, handles, current)
           was == Connected(objs, handles, current)
           os2 == IF was /\ objs[current].cycles < count
                  THEN [out.objs EXCEPT ![current].cycles = @ + 1]
                  ELSE out.objs
       IN  /\ objs' = GcObjs(os2, current, th)
           /\ handles' = GcHandles(out.objs, out.handles, current, th)
           /\ last' = Result([IdleThread EXCEPT
                                   !.conn0 = Connected(objs, handles, current)],
                                "disconnect", out.exc, <<>>, 0)
    /\ UNCHANGED <<current, th>>

\* connector.send_command(command, timeout) is called
SendCommand(t) ==
    /\ th[t].pc = "idle" /\ current # None
    /\ \E tmo \in {NoTimeout} \cup Timeouts : Enter(t, current, "direct", tmo, tmo)

\* a call in progress takes its next step
Step(t) ==
    \/ Clear(t)
    \/ Write(t)
    \/ Flush(t)
    \/ Iter(t)
    \/ Sleep(t)
    \/ Listen(t)
    \/ ProtocolSend(t)
    \/ ProtocolWait(t)

\* one connector, constructed and not yet connected, used by one caller
Init ==
    /\ \E timeout \in 1..MaxTimeout, pa \in PromptArgs, kind \in {"serial", "telnet"} :
          objs = [o \in Objs |->
                    IF o # 1 THEN NoObj
                    ELSE IF kind = "serial" THEN SerialConnector(timeout, pa)
                    ELSE TelnetConnector(timeout)]
    /\ handles = [h \in Handles |-> FreeHandle]
    /\ current = 1
    /\ th = [t \in Threads |-> IdleThread]
    /\ last = NoLast

Next ==
    \/ Connect(1)
    \/ Disconnect(1, 0)
    \/ SendCommand(1)
    \/ Step(1)
    \/ Env

Spec == Init /\ [][Next]_vars

\* the thread that runs send_command is scheduled: a call under way takes its
\* next step, and with each sleep of the loop one poll interval passes
SpecLive == Init /\ [][Next]_vars /\ WF_vars(Step(1))

\* the lifecycle of one connector with the library defaults (timeout 1,
\* built-in prompts), its connect/disconnect cycles counted
InitLife ==
    /\ \E kind \in {"serial", "telnet"} :
          objs = [o \in Objs |->
                    IF o # 1 THEN NoObj
                    ELSE IF kind = "serial" THEN SerialConnector(1, NoPrompts)
                    ELSE TelnetConnector(1)]
    /\ handles = [h \in Handles |-> FreeHandle]
    /\ current = 1
    /\ th = [t \in Threads |-> IdleThread]
    /\ last = NoLast

NextLife ==
    \/ Connect(1)
    \/ Disconnect(1, MaxCycles)
    \/ SendCommand(1)
    \/ Step(1)
    \/ Env

SpecLife == InitLife /\ [][NextLife]_vars

-----------------------------------------------------------------------------
(* Commands one after the other on one connector, the outcome of the earlier
   command kept in view while the later one runs *)

\* send_command is entered as in Enter; the caller still holds the outcome of
\* its earlier call
EnterAgain(t, o, via, req, tmo) ==
    LET r0 == [IdleThread EXCEPT !.obj = o, !.via = via, !.req = req, !.tmo = tmo,
                                 !.conn0 = Connected(objs, handles, o),
                                 !.stale0 = IF objs[o].transport = None THEN 0
                                            ELSE Len(handles[objs[o].transport].rx)]
    IN  IF Send_guard(objs, handles, o)
        THEN Finish(t, r0, NotConnectedExc(objs, o), <<>>, handles)
        ELSE LET h == objs[o].transport
             IN  /\ th' = [th EXCEPT ![t] =
                     [r0 EXCEPT !.pc = IF objs[o].kind = "serial" THEN "clear"
                                        ELSE "listen"]]
                 /\ handles' = [handles EXCEPT ![h].stale = Len(handles[h].rx)]
                 /\ UNCHANGED <<objs, current, last>>

\* connector.send_command(command) with the connector's own timeout
SendCommandAgain(t) ==
    /\ th[t].pc = "idle" /\ current # None
    /\ EnterAgain(t, current, "direct", NoTimeout, NoTimeout)

\* one connector with the built-in prompts
InitBuffer ==
    /\ \E timeout \in 1..MaxTimeout, kind \in {"serial", "telnet"} :
          objs = [o \in Objs |->
                    IF o # 1 THEN NoObj
                    ELSE IF kind = "serial" THEN SerialConnector(timeout, NoPrompts)
                    ELSE TelnetConnector(timeout)]
    /\ handles = [h \in Handles |-> FreeHandle]
    /\ current = 1
    /\ th = [t \in Threads |-> IdleThread]
    /\ last = NoLast

NextBuffer ==
    \/ Connect(1)
    \/ SendCommandAgain(1)
    \/ Step(1)
    \/ Env

SpecBuffer == InitBuffer /\ [][NextBuffer]_vars

\* the device answers the command before, which has timed out, only now:
\* the byte arrives after the command under way has cleared the input, and
\* counts with the bytes that are not an answer to the command under way
DeviceLate(bytes) ==
    \E t \in Threads, b \in bytes :
        LET o == th[t].obj
            h == objs[o].transport
        IN  /\ last.op = "send" /\ last.exc.why = "timeout"
            /\ th[t].pc \in {"write", "flush", "iter", "sleep", "send", "wait"}
            /\ ~OpFails(objs, handles, o)
            /\ handles[h].stale = Len(handles[h].rx)
            /\ Len(handles[h].rx) < MaxRx
            /\ handles' = [handles EXCEPT ![h].rx = Append(@, b), ![h].stale = @ + 1]
            /\ UNCHANGED <<objs, current, th, last>>

NextLate ==
    \/ Connect(1)
    \/ SendCommandAgain(1)
    \/ Step(1)
    \/ DeviceEmit(DeviceBytes)
    \/ DeviceLate({62})

SpecLate == InitBuffer /\ [][NextLate]_vars

-----------------------------------------------------------------------------
(* A device whose output holds a character of more than one byte *)

\* ">" and the two bytes 0xC3 0xA9 of U+00E9 (e with acute accent)
Utf8Bytes == {62, 195, 169}

NextUtf8 ==
    \/ Connect(1)
    \/ SendCommand(1)
    \/ Step(1)
    \/ DeviceEmit(Utf8Bytes)

SpecUtf8 == Init /\ [][NextUtf8]_vars

-----------------------------------------------------------------------------
(* A device that answers a command with one complete response, delivered to
   the transport in one burst while the call is reading *)

MaxResponse == 3    \* bytes of the longest response

\* the responses: text without a prompt, then the prompt ">"
Responses ==
    {r \in UNION {[1..n -> DeviceBytes] : n \in 1..MaxResponse} :
        \A i \in 1..Len(r) : (r[i] = 62) <=> (i = Len(r))}

\* the response arrives whole in the input buffer of the transport, at a
\* moment when the call is about to poll (serial: the head of a loop
\* iteration whose timeout test passes; telnet: the read of the library) and
\* has read nothing yet
DeviceBurst(responses) ==
    \E t \in Threads, r \in responses :
        LET o == th[t].obj
            h == objs[o].transport
        IN  /\ th[t].pc \in {"iter", "wait"}
            /\ th[t].pc = "iter" => ~TimedOut(th[t].elapsed, th[t].eff)
            /\ th[t].consumed = <<>>
            /\ ~OpFails(objs, handles, o)
            /\ handles[h].rx = <<>>
            /\ handles' = [handles EXCEPT ![h].rx = r]
            /\ UNCHANGED <<objs, current, th, last>>

NextBurst ==
    \/ Connect(1)
    \/ Disconnect(1, 0)
    \/ SendCommand(1)
    \/ Step(1)
    \/ DeviceBurst(Responses)
    \/ TransportBreak
    \/ Finalize

SpecBurst == Init /\ [][NextBurst]_vars

-----------------------------------------------------------------------------
(* The bytes SerialConnector.send_command writes for a command *)

\* the characters of the commands of the model ("U+00E9" is the letter e with
\* an acute accent), and the longest command
CommandChars == {"S", "\n", "\r", "U+00E9"}
MaxCommand == 3
Commands == UNION {[1..n -> CommandChars] : n \in 0..MaxCommand}

\* str.encode('utf-8'), of one character and of a string
Encode1(c) ==
    CASE c = "S"      -> <<83>>
      [] c = "\n"     -> <<10>>
      [] c = "\r"     -> <<13>>
      [] c = "U+00E9" -> <<195, 169>>
RECURSIVE EncodeAll(_)
EncodeAll(cs) == IF cs = <<>> THEN <<>> ELSE Encode1(Head(cs)) \o EncodeAll(Tail(cs))

\* command.endswith('\n')
endswith_newline(command) == command # <<>> /\ command[Len(command)] = "\n"

\* a normalization that appends the newline to every command
normalize_Always(command) == Append(command, "\n")

\* if not command.endswith('\n'): command += '\n'
normalize(command) ==
    IF endswith_newline(command) THEN command ELSE Append(command, "\n")

\* encoded_command, the argument of self.serial.write
encoded_command(command) == EncodeAll(normalize(command))

InitCommand ==
    /\ objs = [o \in Objs |-> NoObj]
    /\ handles = [h \in Handles |-> FreeHandle]
    /\ current = None
    /\ th = [t \in Threads |-> IdleThread]
    /\ \E command \in Commands :
          last = [op |-> "args", command |-> command, sent |-> <<>>, wire |-> <<>>]

\* the command is normalized, encoded and handed to write
WriteCommand ==
    /\ last.op = "args"
    /\ last' = [last EXCEPT !.op = "written",
                            !.sent = normalize(last.command),
                            !.wire = encoded_command(last.command)]
    /\ UNCHANGED <<objs, handles, current, th>>

SpecCommand == InitCommand /\ [][WriteCommand]_vars

-----------------------------------------------------------------------------
(* The prompt matcher SerialConnector.__init__ compiles *)

\* the characters of the pattern texts of the model: the two parentheses, by
\* which a regular expression can be malformed, and a literal
PatternChars == {"(", ")", ">"}
MaxPattern  == 2    \* characters of one pattern text
MaxPatterns == 2    \* patterns of one list
PatternTexts == UNION {[1..n -> PatternChars] : n \in 1..MaxPattern}
PatternLists == UNION {[1..n -> PatternTexts] : n \in 0..MaxPatterns}

\* '|'.join(self.prompts)
RECURSIVE join(_)
join(prompts) ==
    IF prompts = <<>> THEN <<>>
    ELSE IF Len(prompts) = 1 THEN prompts[1]
    ELSE prompts[1] \o <<"|">> \o join(Tail(prompts))

\* the parentheses of text are balanced, read from nesting depth depth
RECURSIVE Balanced(_, _)
Balanced(text, depth) ==
    IF text = <<>> THEN depth = 0
    ELSE IF Head(text) = "(" THEN Balanced(Tail(text), depth + 1)
    ELSE IF Head(text) = ")" THEN depth > 0 /\ Balanced(Tail(text), depth - 1)
    ELSE Balanced(Tail(text), depth)

\* re.compile(text): what it raises, re.error for a malformed expression
re_compile(text) == IF Balanced(text, 0) THEN NoExc ELSE Exc("re.error", "invalid_pattern")

\* SerialConnector(port, prompts=prompts): the expression compiled, what the
\* constructor raises, and whether a connector comes out of it
Serial_init(prompts) ==
    [joined |-> join(prompts), exc |-> re_compile(join(prompts)),
     made |-> re_compile(join(prompts)) = NoExc]

InitMatcher ==
    /\ objs = [o \in Objs |-> NoObj]
    /\ handles = [h \in Handles |-> FreeHandle]
    /\ current = None
    /\ th = [t \in Threads |-> IdleThread]
    /\ \E prompts \in PatternLists :
          last = [op |-> "args", prompts |-> prompts, joined |-> <<>>,
                  exc |-> NoExc, made |-> FALSE]

\* the constructor runs (called directly or by the factory, which passes the
\* list on and catches nothing)
CompilePrompts ==
    /\ last.op = "args"
    /\ LET out == Serial_init(last.prompts)
       IN  last' = [last EXCEPT !.op = "compiled", !.joined = out.joined,
                                !.exc = out.exc, !.made = out.made]
    /\ UNCHANGED <<objs, handles, current, th>>

SpecMatcher == InitMatcher /\ [][CompilePrompts]_vars

-----------------------------------------------------------------------------
(* The registry and the factory (src/core/connection_manager.py,
   src/core/connection_factory.py) *)

\* an optional value: given = FALSE is None, or a key that is absent
NoStr == [given |-> FALSE, val |-> ""]
NoNum == [given |-> FALSE, val |-> 0]
Str(s) == [given |-> TRUE, val |-> s]
Num(n) == [given |-> TRUE, val |-> n]

\* Python truthiness of an optional string, number, list
TruthyStr(x) == x.given /\ x.val # ""
TruthyNum(x) == x.given /\ x.val # 0
TruthyList(x) == x.given /\ x.pats # <<>>

\* a or b
OrStr(a, b) == IF TruthyStr(a) THEN a ELSE b
OrNum(a, b) == IF TruthyNum(a) THEN a ELSE b

\* d.get(key, default)
Get(x, default) == IF x.given THEN x ELSE default

\* the hard-coded defaults; the 10.0 s timeout is the largest timeout of the
\* model's scale
TELNET_PORT     == 23
BAUDRATE        == 9600
DEFAULT_TIMEOUT == MaxTimeout

\* the dataclass KnownConnection, its connection fields; timeout has the
\* default 10.0, the others the default None
KnownConnection(host, telnet_port, port, baudrate, timeout, prompts) ==
    [host |-> host, telnet_port |-> telnet_port, port |-> port,
     baudrate |-> baudrate, timeout |-> Get(timeout, Num(DEFAULT_TIMEOUT)),
     prompts |-> prompts]

\* KnownConnection.connection_type
connection_type(k) ==
    IF k.host.given THEN "telnet"
    ELSE IF k.port.given THEN "serial"
    ELSE "unknown"

\* an entry of "known_connections" in the config file: its keys, given when
\* present; "port" is a number in an entry with a host, a device name without
ConfigEntry(host, port, baudrate, timeout, prompts) ==
    [host |-> host, port |-> port, baudrate |-> baudrate, timeout |-> timeout,
     prompts |-> prompts]

\* ConnectionManager._load_config, for one entry
load_config(e) ==
    IF e.host.given
    THEN KnownConnection(e.host,
                         IF TruthyNum(e.port) THEN e.port ELSE Num(TELNET_PORT),
                         NoStr, NoNum,
                         Get(e.timeout, Num(DEFAULT_TIMEOUT)),
                         e.prompts)
    ELSE KnownConnection(NoStr, NoNum,
                         Get(e.port, Str("COM1")),
                         Get(e.baudrate, Num(BAUDRATE)),
                         Get(e.timeout, Num(DEFAULT_TIMEOUT)),
                         Get(e.prompts, PromptArg(TRUE, FACTORY_PROMPTS)))

\* the overrides of create_connector
Overrides(host, port, baudrate, telnet_port, timeout) ==
    [host |-> host, port |-> port, baudrate |-> baudrate,
     telnet_port |-> telnet_port, timeout |-> timeout]
NoOverrides == Overrides(NoStr, NoStr, NoNum, NoNum, NoNum)

\* what the factory yields: the arguments the connector is constructed with,
\* or the ValueError raised instead
Made(kind, host, telnet_port, port, baudrate, timeout, prompts) ==
    [exc |-> NoExc, kind |-> kind, host |-> host, telnet_port |-> telnet_port,
     port |-> port, baudrate |-> baudrate, timeout |-> timeout,
     prompts |-> prompts]
NotMade(why) ==
    [exc |-> Exc("ValueError", why), kind |-> "none", host |-> NoStr,
     telnet_port |-> NoNum, port |-> NoStr, baudrate |-> NoNum,
     timeout |-> NoNum, prompts |-> NoPrompts]

\* ConnectionFactory._create_telnet_connector
create_telnet_connector(k, ov) ==
    LET host        == OrStr(ov.host, k.host)
        telnet_port == OrNum(ov.telnet_port, k.telnet_port)
        timeout     == OrNum(ov.timeout, k.timeout)
    IN  IF ~TruthyStr(host) THEN NotMade("host_required")
        ELSE IF ~TruthyNum(telnet_port) THEN NotMade("telnet_port_required")
        ELSE Made("telnet", host, telnet_port, NoStr, NoNum, timeout, NoPrompts)

\* ConnectionFactory._create_serial_connector
create_serial_connector(k, ov) ==
    LET port     == OrStr(ov.port, k.port)
        baudrate == OrNum(ov.baudrate, k.baudrate)
        timeout  == OrNum(ov.timeout, k.timeout)
        prompts  == IF TruthyList(k.prompts) THEN k.prompts
                    ELSE PromptArg(TRUE, FACTORY_PROMPTS)
    IN  IF ~TruthyStr(port) THEN NotMade("port_required")
        ELSE IF ~TruthyNum(baudrate) THEN NotMade("baudrate_required")
        ELSE Made("serial", NoStr, NoNum, port, baudrate, timeout, prompts)

\* ConnectionFactory.create_connector
create_connector(k, ov) ==
    IF connection_type(k) = "telnet" THEN create_telnet_connector(k, ov)
    ELSE IF connection_type(k) = "serial" THEN create_serial_connector(k, ov)
    ELSE NotMade("unknown_type")

\* the keyword arguments of create_connector_from_params, given when present
Params(host, telnet_port, port, baudrate, timeout, prompts) ==
    [host |-> host, telnet_port |-> telnet_port, port |-> port,
     baudrate |-> baudrate, timeout |-> timeout, prompts |-> prompts]

\* ConnectionFactory.create_connector_from_params
create_connector_from_params(kind, kw) ==
    IF kind = "telnet"
    THEN IF ~TruthyStr(kw.host) THEN NotMade("host_required")
         ELSE Made("telnet", kw.host, Get(kw.telnet_port, Num(TELNET_PORT)),
                   NoStr, NoNum, Get(kw.timeout, Num(DEFAULT_TIMEOUT)), NoPrompts)
    ELSE IF kind = "serial"
    THEN IF ~TruthyStr(kw.port) THEN NotMade("port_required")
         ELSE Made("serial", NoStr, NoNum, kw.port,
                   Get(kw.baudrate, Num(BAUDRATE)),
                   Get(kw.timeout, Num(DEFAULT_TIMEOUT)),
                   Get(kw.prompts, PromptArg(TRUE, FACTORY_PROMPTS)))
    ELSE NotMade("unknown_type")

\* the connector object the factory's constructor call makes
Constructed(made) ==
    IF made.exc # NoExc THEN NoObj
    ELSE IF made.kind = "serial"
    THEN SerialConnector(made.timeout.val, made.prompts)
    ELSE TelnetConnector(made.timeout.val)

\* the values callers and config files supply in the model: stored values,
\* and overrides that are absent, falsy or a value of their own
StoredHosts       == {NoStr, Str("h1")}
StoredPorts       == {NoStr, Str("COM1")}
StoredBaudrates   == {NoNum, Num(4800)}
StoredTelnetPorts == {NoNum, Num(2323)}
StoredTimeouts    == {NoNum, Num(1)}
StoredPrompts     == {NoPrompts, PromptArg(TRUE, <<>>), PromptArg(TRUE, DEFAULT_PROMPTS)}
FilePorts         == {NoNum, Num(0), Num(2323)}
OverrideHosts       == {NoStr, Str(""), Str("h2")}
OverridePorts       == {NoStr, Str(""), Str("COM2")}
OverrideBaudrates   == {NoNum, Num(0), Num(19200)}
OverrideTelnetPorts == {NoNum, Num(0), Num(8023)}
OverrideTimeouts    == {NoNum, Num(0), Num(MaxTimeout + 1)}

NoEntry == ConfigEntry(NoStr, NoStr, NoNum, NoNum, NoPrompts)
NoKnown == KnownConnection(NoStr, NoNum, NoStr, NoNum, NoNum, NoPrompts)
NoParams == Params(NoStr, NoNum, NoStr, NoNum, NoNum, NoPrompts)

\* a call of the factory: where the configuration comes from (a config file
\* entry, a KnownConnection object, keyword parameters) and the arguments
FactoryCall(from, kind, entry, known, ov, kw) ==
    [op |-> "args", from |-> from, kind |-> kind, entry |-> entry,
     known |-> known, ov |-> ov, kw |-> kw, made |-> NotMade("none")]

AnyOverrides ==
    {Overrides(oh, op, ob, ot, om) :
        oh \in OverrideHosts, op \in OverridePorts, ob \in OverrideBaudrates,
        ot \in OverrideTelnetPorts, om \in OverrideTimeouts}

InitFactory ==
    /\ objs = [o \in Objs |-> NoObj]
    /\ handles = [h \in Handles |-> FreeHandle]
    /\ current = None
    /\ th = [t \in Threads |-> IdleThread]
    /\ \/ \E h \in StoredHosts \ {NoStr}, p \in FilePorts, m \in StoredTimeouts,
             pr \in StoredPrompts, ov \in AnyOverrides :
             last = FactoryCall("file", "none",
                                ConfigEntry(h, p, NoNum, m, pr), NoKnown, ov, NoParams)
       \/ \E p \in StoredPorts, b \in StoredBaudrates, m \in StoredTimeouts,
             pr \in StoredPrompts, ov \in AnyOverrides :
             last = FactoryCall("file", "none",
                                ConfigEntry(NoStr, p, b, m, pr), NoKnown, ov, NoParams)
       \/ \E h \in StoredHosts, tp \in StoredTelnetPorts, p \in StoredPorts,
             b \in StoredBaudrates, m \in StoredTimeouts, pr \in StoredPrompts,
             ov \in AnyOverrides :
             last = FactoryCall("object", "none", NoEntry,
                                KnownConnection(h, tp, p, b, m, pr), ov, NoParams)
       \/ \E kind \in {"serial", "telnet", "usb"},
             h \in StoredHosts, tp \in StoredTelnetPorts, p \in StoredPorts,
             b \in StoredBaudrates, m \in StoredTimeouts, pr \in StoredPrompts :
             last = FactoryCall("params", kind, NoEntry, NoKnown, NoOverrides,
                                Params(h, tp, p, b, m, pr))

\* the registry loads the entry
LoadConfig ==
    /\ last.op = "args" /\ last.from = "file"
    /\ last' = [last EXCEPT !.op = "loaded", !.known = load_config(last.entry)]
    /\ UNCHANGED <<objs, handles, current, th>>

\* ConnectionFactory.create_connector(known_conn, **overrides)
CreateConnector ==
    /\ \/ last.op = "loaded"
       \/ last.op = "args" /\ last.from = "object"
    /\ last' = [last EXCEPT !.op = "made",
                            !.made = create_connector(last.known, last.ov)]
    /\ UNCHANGED <<objs, handles, current, th>>

\* ConnectionFactory.create_connector_from_params(connection_type, **kwargs)
CreateFromParams ==
    /\ last.op = "args" /\ last.from = "params"
    /\ last' = [last EXCEPT !.op = "made",
                            !.made = create_connector_from_params(last.kind, last.kw)]
    /\ UNCHANGED <<objs, handles, current, th>>

NextFactory == LoadConfig \/ CreateConnector \/ CreateFromParams

SpecFactory == InitFactory /\ [][NextFactory]_vars

-----------------------------------------------------------------------------
(* The HTTP routes (src/server/routes.py) around the global current_connection *)

\* a slot for a connector object that is being constructed
FreeObjs(cur, ths) == {o \in Objs : ~ObjLive(cur, ths, o)}
AllocObj(cur, ths) == CHOOSE o \in FreeObjs(cur, ths) : \A g \in FreeObjs(cur, ths) : o <= g

\* the except clauses shared by connect_to_device and connect_telnet
Route_connect_status(exc) ==
    IF exc = NoExc THEN 200
    ELSE IF RouteCatches("ConnectionError", exc.cls) THEN 400
    ELSE 500

\* the body of connect_to_device / connect_telnet: disconnect the existing
\* connection, build the connector through create_connector_from_params,
\* connect it; any exception resets current_connection.
\* made: the connector the factory returns, NoObj when it raises ValueError
\* (no port, no host); ok: whether the transport can be opened
Route_connect(t, made, ok) ==
    LET out1 == IF current # None
                THEN Connector_disconnect(objs, handles, current)
                ELSE Outcome(objs, handles, NoExc)
    IN  IF made = NoObj
        THEN LET exc == Exc("ValueError", "missing_field")
             IN  /\ current' = None
                 /\ objs' = GcObjs(out1.objs, None, th)
                 /\ handles' = GcHandles(out1.objs, out1.handles, None, th)
                 /\ last' = Result(IdleThread, "connect", exc, <<>>,
                               Route_connect_status(exc))
        ELSE /\ FreeObjs(current, th) # {}
             /\ LET o    == AllocObj(current, th)
                    os1  == [out1.objs EXCEPT ![o] = made]
                IN  /\ (ok \/ made.kind = "telnet") => CanAlloc(os1, out1.handles, o, th, o)
                    /\ LET out2 == Connector_connect(os1, out1.handles, o, th, o, ok)
                           cur2 == IF out2.exc = NoExc THEN o ELSE None
                       IN  /\ current' = cur2
                           /\ objs' = GcObjs(out2.objs, cur2, th)
                           /\ handles' = GcHandles(out2.objs, out2.handles, cur2, th)
                           /\ last' = Result(IdleThread, "connect", out2.exc, <<>>,
                                         Route_connect_status(out2.exc))

\* ConnectionFactory.create_connector_from_params("serial", port, baudrate,
\* timeout): prompts default to [">"]
Factory_serial_from_params(hasPort, timeout) ==
    IF ~hasPort THEN NoObj
    ELSE SerialConnector(timeout, PromptArg(TRUE, FACTORY_PROMPTS))

\* ConnectionFactory.create_connector_from_params("telnet", host, port, timeout)
Factory_telnet_from_params(hasHost, timeout) ==
    IF ~hasHost THEN NoObj ELSE TelnetConnector(timeout)

\* POST /connect, with the request's timeout drawn from timeouts
ApiConnect(t, timeouts) ==
    /\ th[t].pc = "idle"
    /\ \E hasPort \in BOOLEAN, timeout \in timeouts, ok \in BOOLEAN :
          Route_connect(t, Factory_serial_from_params(hasPort, timeout), ok)
    /\ UNCHANGED th

\* POST /connect/telnet, with the request's timeout drawn from timeouts
ApiConnectTelnet(t, timeouts) ==
    /\ th[t].pc = "idle"
    /\ \E hasHost \in BOOLEAN, timeout \in timeouts, ok \in BOOLEAN :
          Route_connect(t, Factory_telnet_from_params(hasHost, timeout), ok)
    /\ UNCHANGED th

\* DELETE /disconnect
ApiDisconnect(t) ==
    /\ th[t].pc = "idle"
    /\ IF current = None
       THEN /\ last' = Result(IdleThread, "disconnect", NoExc, <<>>, 200)
            /\ UNCHANGED <<objs, handles, current>>
       ELSE LET out == Connector_disconnect(objs, handles, current)
            IN  /\ current' = None
                /\ objs' = GcObjs(out.objs, None, th)
                /\ handles' = GcHandles(out.objs, out.handles, None, th)
                /\ last' = Result([IdleThread EXCEPT
                                !.conn0 = Connected(objs, handles, current)],
                             "disconnect", out.exc, <<>>,
                             IF out.exc = NoExc THEN 200 ELSE 500)
    /\ UNCHANGED th

\* POST /command, with the request's timeout drawn from timeouts: refused
\* without a current connection, else
\* current_connection.send_command(command, timeout) is entered
ApiCommand(t, timeouts) ==
    /\ th[t].pc = "idle"
    /\ IF current = None
       THEN /\ last' = Result(IdleThread, "send",
                                 Exc("HTTPException", "no_active_connection"),
                                 <<>>, 400)
            /\ UNCHANGED <<objs, handles, current, th>>
       ELSE \E tmo \in timeouts : Enter(t, current, "api", tmo, tmo)

\* the config file of the running server, by connection id, and the registry
\* connection_manager loads from it
ConnectionIds == {"ser", "tel", "nohost", "noport"}
ConfigFile ==
    [id \in ConnectionIds |->
        CASE id = "ser"    -> ConfigEntry(NoStr, Str("COM1"), NoNum, Num(1), NoPrompts)
          [] id = "tel"    -> ConfigEntry(Str("h1"), NoNum, NoNum, Num(1), NoPrompts)
          [] id = "nohost" -> ConfigEntry(Str(""), NoNum, NoNum, Num(1), NoPrompts)
          [] id = "noport" -> ConfigEntry(NoStr, Str(""), NoNum, Num(1), NoPrompts)]
Registry == [id \in ConnectionIds |-> load_config(ConfigFile[id])]

\* the connect-by-id requests of the model: an id, known or not, and overrides
ByIdRequest(id, ov) == [id |-> id, ov |-> ov]
ByIdRequests ==
    { ByIdRequest("ser", NoOverrides),
      ByIdRequest("ser", Overrides(NoStr, NoStr, NoNum, NoNum, Num(MaxTimeout))),
      ByIdRequest("tel", NoOverrides),
      ByIdRequest("nohost", NoOverrides),
      ByIdRequest("nohost", Overrides(Str("h2"), NoStr, NoNum, NoNum, NoNum)),
      ByIdRequest("noport", NoOverrides),
      ByIdRequest("nope", NoOverrides) }

\* the except clauses of connect_by_id
Route_connect_by_id_status(exc) ==
    IF exc = NoExc THEN 200
    ELSE IF exc.cls = "ValueError" THEN 400
    ELSE IF RouteCatches("ConnectionError", exc.cls) THEN 400
    ELSE 500

\* a connect_by_id that disconnects the existing connection before it looks
\* the id up
Route_connect_by_id_LookupLast(t, id, ov, ok) ==
    LET was  == current # None /\ Connected(objs, handles, current)
        r    == [IdleThread EXCEPT !.conn0 = was]
        out1 == IF current # None
                THEN Connector_disconnect(objs, handles, current)
                ELSE Outcome(objs, handles, NoExc)
        made == IF id \in DOMAIN Registry THEN create_connector(Registry[id], ov)
                ELSE NotMade("none")
    IN  IF id \notin DOMAIN Registry
        THEN /\ current' = current
             /\ objs' = GcObjs(out1.objs, current, th)
             /\ handles' = GcHandles(out1.objs, out1.handles, current, th)
             /\ last' = Result(r, "connect_by_id", Exc("HTTPException", "not_found"),
                               <<>>, 404)
        ELSE IF made.exc # NoExc
        THEN /\ current' = None
             /\ objs' = GcObjs(out1.objs, None, th)
             /\ handles' = GcHandles(out1.objs, out1.handles, None, th)
             /\ last' = Result(r, "connect_by_id", made.exc, <<>>,
                               Route_connect_by_id_status(made.exc))
        ELSE /\ FreeObjs(current, th) # {}
             /\ LET o   == AllocObj(current, th)
                    os1 == [out1.objs EXCEPT ![o] = Constructed(made)]
                IN  /\ (ok \/ made.kind = "telnet")
                          => CanAlloc(os1, out1.handles, o, th, o)
                    /\ LET out2 == Connector_connect(os1, out1.handles, o, th, o, ok)
                           cur2 == IF out2.exc = NoExc THEN o ELSE None
                       IN  /\ current' = cur2
                           /\ objs' = GcObjs(out2.objs, cur2, th)
                           /\ handles' = GcHandles(out2.objs, out2.handles, cur2, th)
                           /\ last' = Result(r, "connect_by_id", out2.exc, <<>>,
                                         Route_connect_by_id_status(out2.exc))

\* the body of connect_by_id: look the id up (404 when unknown), disconnect
\* the existing connection, build the connector through create_connector,
\* connect it; any exception resets current_connection
Route_connect_by_id(t, id, ov, ok) ==
    LET was == current # None /\ Connected(objs, handles, current)
        r   == [IdleThread EXCEPT !.conn0 = was]
    IN  IF id \notin DOMAIN Registry
        THEN /\ last' = Result(r, "connect_by_id", Exc("HTTPException", "not_found"),
                               <<>>, 404)
             /\ UNCHANGED <<objs, handles, current>>
        ELSE LET out1 == IF current # None
                         THEN Connector_disconnect(objs, handles, current)
                         ELSE Outcome(objs, handles, NoExc)
                 made == create_connector(Registry[id], ov)
             IN  IF made.exc # NoExc
                 THEN /\ current' = None
                      /\ objs' = GcObjs(out1.objs, None, th)
                      /\ handles' = GcHandles(out1.objs, out1.handles, None, th)
                      /\ last' = Result(r, "connect_by_id", made.exc, <<>>,
                                        Route_connect_by_id_status(made.exc))
                 ELSE /\ FreeObjs(current, th) # {}
                      /\ LET o   == AllocObj(current, th)
                             os1 == [out1.objs EXCEPT ![o] = Constructed(made)]
                         IN  /\ (ok \/ made.kind = "telnet")
                                   => CanAlloc(os1, out1.handles, o, th, o)
                             /\ LET out2 == Connector_connect(os1, out1.handles, o, th, o, ok)
                                    cur2 == IF out2.exc = NoExc THEN o ELSE None
                                IN  /\ current' = cur2
                                    /\ objs' = GcObjs(out2.objs, cur2, th)
                                    /\ handles' = GcHandles(out2.objs, out2.handles, cur2, th)
                                    /\ last' = Result(r, "connect_by_id", out2.exc, <<>>,
                                                  Route_connect_by_id_status(out2.exc))

\* POST /connect/by-id
ApiConnectById(t, requests) ==
    /\ th[t].pc = "idle"
    /\ \E q \in requests, ok \in BOOLEAN : Route_connect_by_id(t, q.id, q.ov, ok)
    /\ UNCHANGED th

\* a status handler that drops a connection whose link turns out broken
get_connection_status_Pruning(os, hs, cur) ==
    [objs |-> os, handles |-> hs,
     current |-> IF cur # None /\ OpFails(os, hs, cur) THEN None ELSE cur,
     report |-> IF cur = None THEN <<"no_connection">> ELSE <<"connected", os[cur].kind>>]

\* get_connection_status as a function of what it reads: the state it
\* leaves and the status it reports (connected whenever current_connection
\* is set, with the variant)
get_connection_status(os, hs, cur) ==
    [objs |-> os, handles |-> hs, current |-> cur,
     report |-> IF cur = None THEN <<"no_connection">> ELSE <<"connected", os[cur].kind>>]

\* GET /status
ApiStatus(t) ==
    /\ th[t].pc = "idle"
    /\ LET out == get_connection_status(objs, handles, current)
       IN  /\ current' = out.current
           /\ objs' = GcObjs(out.objs, out.current, th)
           /\ handles' = GcHandles(out.objs, out.handles, out.current, th)
           /\ last' = Result(IdleThread, "status", NoExc, out.report, 200)
    /\ UNCHANGED th

\* the server starts with no connection
InitApi ==
    /\ objs = [o \in Objs |-> NoObj]
    /\ handles = [h \in Handles |-> FreeHandle]
    /\ current = None
    /\ th = [t \in Threads |-> IdleThread]
    /\ last = NoLast

\* requests handled one after the other
NextApi ==
    \/ ApiConnect(1, 1..MaxTimeout)
    \/ ApiConnectTelnet(1, 1..MaxTimeout)
    \/ ApiConnectById(1, ByIdRequests)
    \/ ApiDisconnect(1)
    \/ ApiStatus(1)
    \/ ApiCommand(1, {NoTimeout} \cup Timeouts)
    \/ Step(1)
    \/ Env

SpecApi == InitApi /\ [][NextApi]_vars

\* requests handled by the worker threads of the server, concurrently; the
\* requests leave the timeout fields at their defaults (the connector's
\* timeout is the request default, a command carries timeout=None), the
\* device answers with bare prompts and the link stays up
NextConc ==
    \/ \E t \in Threads :
          \/ ApiConnect(t, {MaxTimeout})
          \/ ApiConnectTelnet(t, {MaxTimeout})
          \/ ApiDisconnect(t)
          \/ ApiCommand(t, {NoTimeout})
          \/ Step(t)
    \/ DeviceEmit({62})
    \/ Finalize

SpecConc == InitApi /\ [][NextConc]_vars

-----------------------------------------------------------------------------
(* The MCP tools (call_tool of src/mcp_server/server.py) around the module's
   own global current_connection; every exception ends in an error result *)

\* the tool connect_device: the id is looked up, the existing connection
\* disconnected, the connector built by create_connector (override_telnet_port
\* is not passed on) and assigned to current_connection, then connected
Tool_connect_device(t, id, ov, ok) ==
    IF id \notin DOMAIN Registry
    THEN /\ last' = Result(IdleThread, "tool_connect",
                           Exc("ValueError", "not_found"), <<>>, 0)
         /\ UNCHANGED <<objs, handles, current>>
    ELSE LET out1 == IF current # None
                     THEN Connector_disconnect(objs, handles, current)
                     ELSE Outcome(objs, handles, NoExc)
             made == create_connector(Registry[id], [ov EXCEPT !.telnet_port = NoNum])
         IN  IF made.exc # NoExc
             THEN /\ current' = current
                  /\ objs' = GcObjs(out1.objs, current, th)
                  /\ handles' = GcHandles(out1.objs, out1.handles, current, th)
                  /\ last' = Result(IdleThread, "tool_connect", made.exc, <<>>, 0)
             ELSE /\ FreeObjs(current, th) # {}
                  /\ LET o   == AllocObj(current, th)
                         os1 == [out1.objs EXCEPT ![o] = Constructed(made)]
                     IN  /\ (ok \/ made.kind = "telnet")
                               => CanAlloc(os1, out1.handles, o, th, o)
                         /\ LET out2 == Connector_connect(os1, out1.handles, o, th, o, ok)
                            IN  /\ current' = o
                                /\ objs' = GcObjs(out2.objs, o, th)
                                /\ handles' = GcHandles(out2.objs, out2.handles, o, th)
                                /\ last' = Result(IdleThread, "tool_connect",
                                                  out2.exc, <<>>, 0)

ToolConnect(t, requests) ==
    /\ th[t].pc = "idle"
    /\ \E q \in requests, ok \in BOOLEAN : Tool_connect_device(t, q.id, q.ov, ok)
    /\ UNCHANGED th

\* the tool disconnect_device; the default of getattr(current_connection,
\* 'port', f"{current_connection.host}:...") is evaluated before the call and
\* raises AttributeError on a SerialConnector, which has no host
ToolDisconnect(t) ==
    /\ th[t].pc = "idle"
    /\ IF current = None
       THEN /\ last' = Result(IdleThread, "tool_disconnect", NoExc,
                              <<"no_connection">>, 0)
            /\ UNCHANGED <<objs, handles, current>>
       ELSE IF objs[current].kind = "serial"
       THEN /\ last' = Result([IdleThread EXCEPT
                                   !.conn0 = Connected(objs, handles, current)],
                              "tool_disconnect", Exc("AttributeError", "host"), <<>>, 0)
            /\ UNCHANGED <<objs, handles, current>>
       ELSE LET out == Connector_disconnect(objs, handles, current)
            IN  /\ current' = None
                /\ objs' = GcObjs(out.objs, None, th)
                /\ handles' = GcHandles(out.objs, out.handles, None, th)
                /\ last' = Result([IdleThread EXCEPT
                                       !.conn0 = Connected(objs, handles, current)],
                                  "tool_disconnect", out.exc, <<"disconnected">>, 0)
    /\ UNCHANGED th

\* the tool send_command: timeout = arguments.get("timeout", 10.0) is what
\* send_command is called with; requests: the timeouts the tool calls carry
ToolCommand(t, requests) ==
    /\ th[t].pc = "idle"
    /\ IF current = None
       THEN /\ last' = Result(IdleThread, "send",
                              Exc("ConnectionError", "no_active_connection"), <<>>, 0)
            /\ UNCHANGED <<objs, handles, current, th>>
       ELSE \E req \in requests :
               Enter(t, current, "tool", req,
                     Get(IF req = NoTimeout THEN NoNum ELSE Num(req),
                         Num(DEFAULT_TIMEOUT)).val)

\* the tool get_connection_status (the resource status://current reads the
\* same attributes)
ToolStatus(t) ==
    /\ th[t].pc = "idle"
    /\ LET out == get_connection_status(objs, handles, current)
       IN  /\ current' = out.current
           /\ objs' = GcObjs(out.objs, out.current, th)
           /\ handles' = GcHandles(out.objs, out.handles, out.current, th)
           /\ last' = Result(IdleThread, "status", NoExc, out.report, 0)
    /\ UNCHANGED th

\* tool calls are handled one after the other on the server's event loop
NextTool ==
    \/ ToolConnect(1, ByIdRequests)
    \/ ToolDisconnect(1)
    \/ ToolCommand(1, {NoTimeout} \cup Timeouts)
    \/ ToolStatus(1)
    \/ Step(1)
    \/ DeviceEmit(DeviceBytes)
    \/ TransportBreak

SpecTool == InitApi /\ [][NextTool]_vars

-----------------------------------------------------------------------------
(* The connection registry: ConnectionManager called directly *)

\* the ids of the registry and, per id, the different KnownConnection objects
\* a caller can add (rev tells two objects with one id apart)
RegistryIds == {"a", "b"}
MaxRev == 2
Entries == [id : RegistryIds, rev : 1..MaxRev]
\* Python None as the result of a lookup, and as the default id
NoConnection == [id |-> "", rev |-> 0]
NoDefault == ""

\* dict.get(k), d[k] = v, del d[k]
dict_get(d, k) == IF k \in DOMAIN d THEN d[k] ELSE NoConnection
dict_set(d, k, v) == [x \in DOMAIN d \cup {k} |-> IF x = k THEN v ELSE d[x]]
dict_del(d, k) == [x \in DOMAIN d \ {k} |-> d[x]]

\* the dictionaries _load_config builds, each entry under its own id, and
\* the manager after construction: _known_connections, _default_connection
LoadedDicts == {[k \in S |-> [id |-> k, rev |-> 1]] : S \in SUBSET RegistryIds}
Managers == [known : LoadedDicts, default : {NoDefault, "a"}]

\* get_known_connections: the dictionary handed out and whether it is the
\* very object the manager holds (.copy() makes a new one)
get_known_connections_Alias(m) == [dict |-> m.known, shared |-> TRUE]
get_known_connections(m) == [dict |-> m.known, shared |-> FALSE]

get_connection(m, connection_id) == dict_get(m.known, connection_id)

\* 'if self._default_connection:' is false for None and for the empty string
get_default_connection(m) ==
    IF m.default # NoDefault THEN get_connection(m, m.default) ELSE NoConnection

add_connection(m, connection) ==
    [m EXCEPT !.known = dict_set(@, connection.id, connection)]

\* the manager after the call and the value returned
remove_connection(m, connection_id) ==
    IF connection_id \in DOMAIN m.known
    THEN [mgr |-> [m EXCEPT !.known = dict_del(@, connection_id)], ret |-> TRUE]
    ELSE [mgr |-> m, ret |-> FALSE]

\* a call on the manager completes: mgr is the manager after it and before
\* the manager it found; a dictionary handed out earlier that is the
\* manager's own object changes with it
Called(op, mgr, id, arg, ret, got) ==
    /\ last' = [last EXCEPT !.op = op, !.mgr = mgr, !.before = last.mgr,
                            !.id = id, !.arg = arg, !.ret = ret, !.got = got,
                            !.snap = IF last.shared THEN mgr.known ELSE @]
    /\ UNCHANGED <<objs, handles, current, th>>

InitRegistry ==
    /\ objs = [o \in Objs |-> NoObj]
    /\ handles = [h \in Handles |-> FreeHandle]
    /\ current = None
    /\ th = [t \in Threads |-> IdleThread]
    /\ \E m \in Managers :
          last = [op |-> "init", mgr |-> m, before |-> m, id |-> "",
                  arg |-> NoConnection, ret |-> FALSE, got |-> NoConnection,
                  held |-> FALSE, shared |-> FALSE, snap |-> <<>>]

AddConnection ==
    \E c \in Entries :
        Called("add", add_connection(last.mgr, c), c.id, c, FALSE, NoConnection)

RemoveConnection ==
    \E id \in RegistryIds :
        LET out == remove_connection(last.mgr, id)
        IN  Called("remove", out.mgr, id, NoConnection, out.ret, NoConnection)

GetConnection ==
    \E id \in RegistryIds :
        Called("get", last.mgr, id, NoConnection, FALSE, get_connection(last.mgr, id))

GetDefaultConnection ==
    Called("get_default", last.mgr, last.mgr.default, NoConnection, FALSE,
           get_default_connection(last.mgr))

GetKnownConnections ==
    LET out == get_known_connections(last.mgr)
    IN  /\ last' = [last EXCEPT !.op = "get_known", !.before = last.mgr,
                                !.id = "", !.arg = NoConnection, !.ret = FALSE,
                                !.got = NoConnection, !.held = TRUE,
                                !.shared = out.shared, !.snap = out.dict]
        /\ UNCHANGED <<objs, handles, current, th>>

\* the caller changes the dictionary it was handed: d[k] = c, del d[k]
Mutated(op, d, id, arg) ==
    /\ last' = [last EXCEPT !.op = op, !.before = last.mgr, !.id = id,
                            !.arg = arg, !.ret = FALSE, !.got = NoConnection,
                            !.snap = d,
                            !.mgr = IF last.shared THEN [@ EXCEPT !.known = d] ELSE @]
    /\ UNCHANGED <<objs, handles, current, th>>

SnapshotSet ==
    /\ last.held
    /\ \E k \in RegistryIds, c \in Entries :
          Mutated("snapshot_set", dict_set(last.snap, k, c), k, c)

SnapshotDel ==
    /\ last.held
    /\ \E k \in DOMAIN last.snap :
          Mutated("snapshot_del", dict_del(last.snap, k), k, NoConnection)

NextRegistry ==
    \/ AddConnection
    \/ RemoveConnection
    \/ GetConnection
    \/ GetDefaultConnection
    \/ GetKnownConnections
    \/ SnapshotSet
    \/ SnapshotDel

SpecRegistry == InitRegistry /\ [][NextRegistry]_vars

-----------------------------------------------------------------------------
(* Properties *)

\* a call of thread t is under way; the call that completed last was a
\* send_command; it returned
InFlight(t) == th[t].pc # "idle"
Sent == last.op = "send"
SentOk == Sent /\ last.exc = NoExc

\* C1: send_command on a connector that is not connected (never connected, or
\* disconnected) fails with the not-connected error and performs no transport
\* I/O: no call gets past the guard unconnected, and a refused call has an
\* empty I/O record.
C1_NotConnectedFailsFast ==
    /\ \A t \in Threads : InFlight(t) => th[t].conn0
    /\ (Sent /\ ~last.conn0) =>
          /\ last.exc.why = "not_connected"
          /\ last.io = <<>>

\* C1 witness: a send_command refused on a connector that holds a transport
\* object that is not open (it was disconnected, or its open failed)
C1_Witness ==
    /\ Sent /\ ~last.conn0
    /\ last.exc.why = "not_connected"
    /\ objs[1].transport # None

\* C2: disconnect never raises and leaves the connector disconnected, also
\* when the connector was not connected (no connect before it, or a
\* disconnect right before it).
C2_DisconnectNeverRaises ==
    last.op = "disconnect" =>
        /\ last.exc = NoExc
        /\ current # None => ~Connected(objs, handles, current)

\* C2 witness: a disconnect completed on a connector that was not connected
C2_Witness ==
    /\ last.op = "disconnect" /\ ~last.conn0
    /\ last.exc = NoExc

\* C3: a connector owns at most one open transport handle: the transports
\* opened and not yet closed number 0 or 1.
C3_AtMostOneOpenHandle == Cardinality(OpenHandles(handles)) <= 1

\* the response buffer ends in text that pattern p matches
EndsIn(p, text) ==
    \E k \in 1..(Len(text) + 1) :
        /\ MatchAt(p, text, k)
        /\ ~p.anchored => k + Len(p.lit) - 1 = Len(text)

EndsInPrompt(prompts, text) == \E i \in 1..Len(prompts) : EndsIn(prompts[i], text)

\* C4: a serial send_command that returns, returns the text accumulated from
\* the transport verbatim: the decoding of the bytes it consumed, in order,
\* ending with the prompt, nothing trimmed, reordered or dropped.
C4_RoundTrip ==
    (SentOk /\ current # None /\ objs[current].kind = "serial") =>
        /\ last.text = DecodeAll(last.consumed)
        /\ last.text # <<>>
        /\ prompt_search(objs[current].prompts, last.text)

\* C4 witness: the device answers "O\n>" and that is what is returned
C4_Witness ==
    /\ SentOk /\ objs[1].kind = "serial"
    /\ last.consumed = <<79, 10, 62>>
    /\ last.text = <<"O", "\n", ">">>

\* C5: for every supplied pattern set P the read loop completes exactly on
\* the buffers that end in text matching a member of P: it returns only such
\* a buffer, and it does not go on reading with such a buffer.
C5_CompletesExactlyOnPrompt ==
    /\ (SentOk /\ current # None /\ objs[current].kind = "serial") =>
          EndsInPrompt(objs[current].prompts, last.text)
    /\ \A t \in Threads :
          (th[t].pc \in {"iter", "sleep"} /\ th[t].response # <<>>) =>
              ~EndsInPrompt(objs[th[t].obj].prompts, th[t].response)

\* C6: a serial send_command that fails with the timeout error does so not
\* earlier than timeout after the write and not later than timeout plus one
\* poll interval.
C6_TimeoutLaw ==
    /\ (Sent /\ last.exc.cls = "SerialTimeoutError") =>
          /\ last.elapsed >= last.eff
          /\ last.elapsed <= last.eff + 1
    /\ \A t \in Threads :
          th[t].pc \in {"iter", "sleep"} => th[t].elapsed <= th[t].eff + 1

\* C6 witness: the device sent bytes, none completed a prompt, and the call
\* timed out
C6_Witness ==
    /\ Sent /\ last.exc.cls = "SerialTimeoutError"
    /\ last.consumed # <<>>
    /\ last.eff = MaxTimeout

\* C7: a command timeout does not disconnect: after POST /command failed with
\* a timeout the current connection is still set, its transport still open,
\* and the guard of send_command admits the next command.
C7_TimeoutKeepsConnection ==
    (Sent /\ last.exc.why = "timeout") =>
        /\ current # None
        /\ Connected(objs, handles, current)
        /\ ~Send_guard(objs, handles, current)

\* C7 witness: POST /command answered 408 after the serial read timed out
C7_Witness ==
    /\ Sent /\ last.exc.cls = "SerialTimeoutError"
    /\ last.http = 408

\* C8: after send_command failed with a connection error (the transport
\* failed during clear, write, flush or read) the connector is no longer
\* connected, so that the next send_command is refused by the guard.
C8_ConnectionErrorInvalidates ==
    (Sent /\ last.exc.why = "io" /\ current # None) =>
        Send_guard(objs, handles, current)

\* C9: bytes that were in the transport's input buffer when send_command was
\* invoked never appear in the response of that send_command.
C9_IdleBufferIsolation ==
    /\ \A t \in Threads : th[t].staleRead = 0
    /\ Sent => last.staleRead = 0

\* C9 witness: a command returned a response although bytes were buffered
\* when it was invoked
C9_Witness ==
    /\ SentOk
    /\ last.stale0 > 0
    /\ last.text # <<>>

\* C10: within one connector commands are strictly sequential: at no time
\* are two send_command calls under way on the same connector.
C10_OneCommandInFlight ==
    \A t1, t2 \in Threads :
        (t1 # t2 /\ InFlight(t1) /\ InFlight(t2)) => th[t1].obj # th[t2].obj

\* C11: disconnect closes the transport and leaves the connector ready for
\* the next connect, for every number of cycles: after a disconnect the
\* transport is not open and send_command is refused as not connected; after
\* a connect that succeeded the connector is connected and send_command is
\* admitted.
C11_LifecycleRepeats ==
    /\ last.op = "disconnect" =>
          /\ ~Connected(objs, handles, current)
          /\ Send_guard(objs, handles, current)
    /\ (last.op = "connect" /\ last.exc = NoExc) =>
          /\ Connected(objs, handles, current)
          /\ ~Send_guard(objs, handles, current)
    /\ Sent => (last.exc.why = "not_connected" <=> ~last.conn0)

\* C11 witness: a command returned a response on a connector that had been
\* connected and disconnected MaxCycles times before
C11_Witness ==
    /\ SentOk
    /\ objs[1].cycles = MaxCycles
    /\ Connected(objs, handles, 1)

\* a factory call has completed; what the stored configuration of the call
\* (file entry, KnownConnection object, keyword parameters) supplies per field
FactoryDone == last.op = "made"
StoredHost ==
    IF last.from = "file" THEN last.entry.host
    ELSE IF last.from = "object" THEN last.known.host ELSE last.kw.host
StoredTelnetPort ==
    IF last.from = "file"
    THEN (IF last.entry.host.given THEN last.entry.port ELSE NoNum)
    ELSE IF last.from = "object" THEN last.known.telnet_port ELSE last.kw.telnet_port
StoredPort ==
    IF last.from = "file"
    THEN (IF last.entry.host.given THEN NoStr ELSE last.entry.port)
    ELSE IF last.from = "object" THEN last.known.port ELSE last.kw.port
StoredBaudrate ==
    IF last.from = "file" THEN last.entry.baudrate
    ELSE IF last.from = "object" THEN last.known.baudrate ELSE last.kw.baudrate
StoredTimeout ==
    IF last.from = "file" THEN last.entry.timeout
    ELSE IF last.from = "object" THEN last.known.timeout ELSE last.kw.timeout
StoredPromptList ==
    IF last.from = "file" THEN last.entry.prompts
    ELSE IF last.from = "object" THEN last.known.prompts ELSE last.kw.prompts

\* the override when one is supplied, else the stored value
Supplied(override, stored) == IF override.given THEN override ELSE stored

\* C13: create_connector gives every field of the connector the override
\* when an override is supplied, whatever its value, and the value of the
\* stored KnownConnection otherwise.
C13_OverrideWins ==
    (FactoryDone /\ last.from # "params" /\ last.made.exc = NoExc) =>
        /\ last.made.timeout = Supplied(last.ov.timeout, last.known.timeout)
        /\ last.made.kind = "telnet" =>
              /\ last.made.host = Supplied(last.ov.host, last.known.host)
              /\ last.made.telnet_port =
                    Supplied(last.ov.telnet_port, last.known.telnet_port)
        /\ last.made.kind = "serial" =>
              /\ last.made.port = Supplied(last.ov.port, last.known.port)
              /\ last.made.baudrate =
                    Supplied(last.ov.baudrate, last.known.baudrate)

\* no override and no stored value for a field
Unsupplied(override, stored) == ~override.given /\ ~stored.given

\* C14: a field that neither an override nor the stored configuration
\* supplies takes the hard-coded default (telnet port 23, baudrate 9600,
\* timeout 10 s, prompts [">"]), for config file entries, KnownConnection
\* objects and keyword parameters alike: the connector made has the default,
\* and no "required" error is raised for such a field.
C14_DefaultsFallThrough ==
    FactoryDone =>
        /\ last.made.exc = NoExc =>
              /\ Unsupplied(last.ov.timeout, StoredTimeout) =>
                    last.made.timeout = Num(DEFAULT_TIMEOUT)
              /\ (last.made.kind = "telnet"
                    /\ Unsupplied(last.ov.telnet_port, StoredTelnetPort)) =>
                    last.made.telnet_port = Num(TELNET_PORT)
              /\ (last.made.kind = "serial"
                    /\ Unsupplied(last.ov.baudrate, StoredBaudrate)) =>
                    last.made.baudrate = Num(BAUDRATE)
              /\ (last.made.kind = "serial" /\ ~StoredPromptList.given) =>
                    last.made.prompts = PromptArg(TRUE, FACTORY_PROMPTS)
        /\ last.made.exc.why = "telnet_port_required" =>
              ~Unsupplied(last.ov.telnet_port, StoredTelnetPort)
        /\ last.made.exc.why = "baudrate_required" =>
              ~Unsupplied(last.ov.baudrate, StoredBaudrate)

\* C15: a stored configuration that has neither host nor port, none being
\* supplied by an override either, resolves to ValueError and no connector is
\* constructed; and no connector is made without a host (telnet) or a port
\* (serial).
C15_MissingFieldDetected ==
    FactoryDone =>
        /\ (~StoredHost.given /\ ~StoredPort.given
              /\ ~last.ov.host.given /\ ~last.ov.port.given) =>
              /\ last.made.exc.cls = "ValueError"
              /\ Constructed(last.made) = NoObj
        /\ last.made.exc = NoExc =>
              /\ last.made.kind = "telnet" => TruthyStr(last.made.host)
              /\ last.made.kind = "serial" => TruthyStr(last.made.port)

\* C16: a connect-by-id request that fails validation (ValueError from the
\* factory) touches no transport: the connection that was active before the
\* request is still the current connection and still open.
C16_ConfigErrorTouchesNothing ==
    (last.op = "connect_by_id" /\ last.exc.cls = "ValueError" /\ last.conn0) =>
        /\ current # None
        /\ Connected(objs, handles, current)

\* C17: the status query changes nothing: every step of GET /status leaves
\* the current connection reference, the connector objects (their parameters
\* and connected state) and the transports as they were.
C17_StatusReadOnly ==
    [][(\E t \in Threads : ApiStatus(t)) => UNCHANGED <<objs, handles, current, th>>]_vars

\* C17 witness: the status was queried on a connection whose link is broken,
\* and reported
C17_Witness ==
    /\ last.op = "status"
    /\ last.text = <<"connected", "serial">>
    /\ current # None /\ OpFails(objs, handles, current)

\* C12: the timeout that bounds the read of a send_command is the timeout of
\* the caller's request when it carries one, and the connector's own default
\* (the timeout it was constructed with) when it carries none.
C12_EffectiveTimeout ==
    \A t \in Threads :
        th[t].pc \in {"iter", "sleep"} =>
            th[t].eff = IF th[t].req # NoTimeout THEN th[t].req
                        ELSE objs[th[t].obj].timeout

\* the error classes of the connectors: connection / not-connected errors
\* (SerialConnectionError, and the ConnectionError the telnet guard raises)
\* and the timeout error
ConnectionErrorKinds == {"SerialConnectionError", "ConnectionError"}
TimeoutErrorKinds == {"SerialTimeoutError"}

\* C18: every failure of connect or send_command reaches the caller as one of
\* the error kinds: an open failure and a write/read failure as the
\* connection error, a missing prompt as the timeout error, a call on a
\* closed connector as the not-connected error.
C18_FailuresAreTyped ==
    (last.op \in {"connect", "send"} /\ last.exc # NoExc) =>
        /\ last.exc.why \in {"open", "io", "not_connected"} =>
              last.exc.cls \in ConnectionErrorKinds
        /\ last.exc.why = "timeout" => last.exc.cls \in TimeoutErrorKinds
        /\ last.exc.why \in {"open", "io", "not_connected", "timeout"}

\* the read loop of a serial send_command was entered
ReadStarted(io) == \E i \in 1..Len(io) : io[i] = "read"

\* C19: the read loop of send_command terminates: a call that is in the loop
\* eventually ends, and, the transport not failing, it ends either with the
\* response (prompt match) or with the timeout error.
C19_ReadLoopTerminates ==
    /\ \A t \in Threads : (th[t].pc \in {"iter", "sleep"}) ~> (th[t].pc = "idle")
    /\ []((Sent /\ objs[1].kind = "serial" /\ ReadStarted(last.io)
             /\ last.exc.why # "io") =>
            (last.exc = NoExc \/ last.exc.cls = "SerialTimeoutError"))

\* C19 witness: the loop ran for the whole timeout and ended with a prompt
\* match at the last poll
C19_Witness ==
    /\ SentOk /\ objs[1].kind = "serial"
    /\ last.eff = MaxTimeout
    /\ last.elapsed = MaxTimeout

C21_PromptPatternsNonEmpty ==
    (FactoryDone /\ last.made.exc = NoExc /\ last.made.kind = "serial") =>
        /\ Constructed(last.made).prompts # <<>>
        /\ ~TruthyList(StoredPromptList) =>
              Constructed(last.made).prompts \in {DEFAULT_PROMPTS, FACTORY_PROMPTS}

\* C22: the response buffer belongs to one send_command: a call starts with
\* an empty buffer, and at every moment the buffer, and the text the call
\* returns, is the decoding of the bytes this call itself has read, whatever
\* the call before it read, returned or left unfinished at its timeout.
C22_ResponseBufferPerCall ==
    /\ \A t \in Threads :
          /\ th[t].pc \in {"clear", "write", "flush"} =>
                th[t].response = <<>> /\ th[t].consumed = <<>>
          /\ th[t].pc \in {"iter", "sleep"} =>
                th[t].response = DecodeAll(th[t].consumed)
    /\ (SentOk /\ objs[1].kind = "serial") => last.text = DecodeAll(last.consumed)

\* C22 witness: the earlier command timed out after it had read characters;
\* the later command is in its read loop and has read a character of its own
C22_Witness ==
    /\ Sent /\ last.exc.cls = "SerialTimeoutError" /\ last.consumed # <<>>
    /\ th[1].pc = "sleep"
    /\ th[1].response = <<"O">>

\* C23: constructing the prompt matcher from a pattern list that contains an
\* invalid pattern fails with the configuration error, the error kind of a
\* missing mandatory parameter (ValueError), and produces no connector.
C23_InvalidPatternRejected ==
    (last.op = "compiled"
       /\ \E i \in 1..Len(last.prompts) : re_compile(last.prompts[i]) # NoExc) =>
        /\ last.exc.cls = "ValueError"
        /\ ~last.made

\* the transport operations of a send_command in the order of the code
StepOrder(kind) ==
    IF kind = "serial" THEN <<"clear", "write", "flush", "read">>
    ELSE <<"clear", "write", "read">>
IsPrefix(a, b) == Len(a) <= Len(b) /\ SubSeq(b, 1, Len(a)) = a

\* C24: within one send_command the input is cleared first, then the command
\* is written and flushed, and only then the timeout clock starts and the
\* first read happens: the operations done so far are always an initial part
\* of clear, write, flush, read, the clock stands at zero until the flush is
\* done, and the read loop is entered with all three done.
C24_StepOrder ==
    /\ \A t \in Threads : InFlight(t) =>
          /\ IsPrefix(th[t].io, StepOrder(objs[th[t].obj].kind))
          /\ th[t].pc \in {"clear", "write", "flush"} => th[t].elapsed = 0
          /\ th[t].pc \in {"iter", "sleep"} =>
                IsPrefix(<<"clear", "write", "flush">>, th[t].io)
    /\ Sent => IsPrefix(last.io, StepOrder(objs[1].kind))

\* C24 witness: a serial command went through all four operations and
\* returned after the clock had advanced
C24_Witness ==
    /\ SentOk /\ objs[1].kind = "serial"
    /\ last.io = <<"clear", "write", "flush", "read">>
    /\ last.elapsed > 0

\* C25: the read loop sleeps the poll interval only after an iteration that
\* found no bytes available, so that consuming buffered bytes costs no
\* delay: a loop that is about to sleep for the first time has read nothing.
C25_SleepOnlyWhenIdle ==
    \A t \in Threads :
        (th[t].pc = "sleep" /\ th[t].elapsed = 0) => th[t].consumed = <<>>

\* C26: when the device has delivered a complete prompt-terminated response
\* to the transport before the timeout elapses, send_command returns it: a
\* serial call that ends with the timeout error leaves no complete response
\* behind, neither read nor waiting in the input buffer.
C26_CompleteResponseReturned ==
    (Sent /\ objs[1].kind = "serial" /\ last.exc.cls = "SerialTimeoutError"
          /\ objs[1].prompts # <<>>) =>
        ~prompt_search(objs[1].prompts,
                       DecodeAll(last.consumed \o handles[objs[1].transport].rx))

\* C27: the text send_command returns for a command consists only of bytes
\* the device emitted in reply to that command: a late reply to the command
\* before, which timed out, arriving after the input clear of this command,
\* is no part of the text returned.
C27_NoLateReplyReturned ==
    SentOk => last.staleRead = 0

\* C28: the status reports connected only when the transport of the current
\* connector is open: never for a connector whose transport was never opened
\* or has been closed, whatever connect, command, disconnect and status
\* requests came before.
C28_StatusConnectedMeansOpen ==
    (last.op = "status" /\ last.text # <<>> /\ last.text[1] = "connected") =>
        /\ current # None
        /\ Connected(objs, handles, current)

\* C29: with requests handled one after the other, at most one transport is
\* open and every open transport is the transport of the connector the
\* current connection refers to: whenever the reference is replaced or reset
\* (new connect, connect failure, connection error during a command) the
\* transport of the connector it referred to has been closed.
C29_OpenTransportIsCurrent ==
    /\ Cardinality(OpenHandles(handles)) <= 1
    /\ \A h \in OpenHandles(handles) :
          current # None /\ objs[current].transport = h

\* C30: with the handlers of concurrent requests running on separate
\* threads, no interleaving of connect, disconnect and command requests
\* leaves an open transport that the current connection does not refer to,
\* and no command performs I/O on a transport another request has closed (a
\* command fails on its transport only when the link broke, which it does
\* not in this specification).
C30_ConcurrentRequestsSafe ==
    /\ \A h \in OpenHandles(handles) :
          current # None /\ objs[current].transport = h
    /\ Sent => last.exc.why \notin {"io", "none_transport"}

\* C31: a connect request that names a connection id the registry does not
\* hold fails with the not-found error and changes nothing: the step that
\* answers it leaves the current connection, the connector objects and the
\* transports as they were (nothing disconnected, nothing replaced).
C31_UnknownIdChangesNothing ==
    [][(last' # last /\ last'.op = "connect_by_id" /\ last'.exc.why = "not_found") =>
          /\ last'.http = 404
          /\ UNCHANGED <<objs, handles, current, th>>]_vars

\* C31 witness: the request for an unknown id was answered 404 while a
\* connection was active, and that connection is still current and open
C31_Witness ==
    /\ last.op = "connect_by_id" /\ last.exc.why = "not_found"
    /\ last.conn0
    /\ current # None /\ Connected(objs, handles, current)

\* C32: after a disconnect request has completed, whether the disconnect
\* succeeded or raised, no active connection remains: the current connection
\* is none and the status reports no connection (so that a following command
\* request is rejected before any I/O).
C32_DisconnectLeavesNoConnection ==
    last.op \in {"disconnect", "tool_disconnect"} =>
        /\ current = None
        /\ get_connection_status(objs, handles, current).report = <<"no_connection">>

\* C33: a connect call that fails leaves the connector disconnected, as if
\* connect had never been called: no transport handle is open, the guard of
\* send_command refuses the next command as not connected, and a disconnect
\* that follows does not raise.
C33_FailedConnectLeavesDisconnected ==
    (last.op = "connect" /\ last.exc # NoExc) =>
        /\ OpenHandles(handles) = {}
        /\ ~Connected(objs, handles, current)
        /\ Send_guard(objs, handles, current)
        /\ Connector_disconnect(objs, handles, current).exc = NoExc

\* a host, a serial port is available once the overrides are applied to the
\* stored configuration
HostResolved == TruthyStr(OrStr(last.ov.host, last.known.host))
PortResolved == TruthyStr(OrStr(last.ov.port, last.known.port))

\* C34: the variant create_connector makes is determined by the resolved
\* parameters: with a host available after the overrides (and no serial
\* port) the call does not end in a serial connector nor in an error about
\* the type, the host or the port, and likewise with a serial port available
\* (and no host); in particular a stored configuration with neither, and an
\* override that supplies one, yields the connector of that variant.
C34_VariantFromResolvedParameters ==
    (FactoryDone /\ last.from # "params") =>
        /\ (HostResolved /\ ~PortResolved) =>
              /\ last.made.kind # "serial"
              /\ last.made.exc.why \notin {"unknown_type", "host_required", "port_required"}
        /\ (PortResolved /\ ~HostResolved) =>
              /\ last.made.kind # "telnet"
              /\ last.made.exc.why \notin {"unknown_type", "host_required", "port_required"}

\* the ids other than id are looked up with the same result as before
OthersKept(id) ==
    \A k \in RegistryIds \ {id} :
        get_connection(last.mgr, k) = get_connection(last.before, k)

\* C35: the connection registry behaves as a map under any sequence of
\* calls: after add_connection(c) the lookup of c.id returns c, replacing
\* any earlier entry of that id; remove_connection(id) returns true exactly
\* when id was present, and afterwards the lookup of id, and of the default
\* when id is the default, returns none; each of them leaves the other ids
\* alone and a lookup changes nothing; the dictionary get_known_connections
\* returns holds the entries of the registry, and changing it never changes
\* the registry.
C35_RegistryIsMap ==
    /\ last.op = "add" =>
          /\ get_connection(last.mgr, last.arg.id) = last.arg
          /\ OthersKept(last.arg.id)
    /\ last.op = "remove" =>
          /\ last.ret = (last.id \in DOMAIN last.before.known)
          /\ get_connection(last.mgr, last.id) = NoConnection
          /\ (last.id = last.mgr.default =>
                 get_default_connection(last.mgr) = NoConnection)
          /\ OthersKept(last.id)
    /\ last.op = "get" =>
          /\ last.mgr = last.before
          /\ last.got = dict_get(last.before.known, last.id)
    /\ last.op = "get_default" => last.mgr = last.before
    /\ last.op = "get_known" =>
          /\ last.mgr = last.before
          /\ last.snap = last.mgr.known
    /\ last.op \in {"snapshot_set", "snapshot_del"} => last.mgr = last.before

\* the default id, added a second time over its earlier entry, is removed
\* while a dictionary handed out before still holds that entry
C35_Witness ==
    /\ last.op = "remove" /\ last.ret /\ last.id = last.mgr.default
    /\ last.before.known[last.id].rev = MaxRev
    /\ last.held /\ last.id \in DOMAIN last.snap
    /\ last.snap[last.id].rev = MaxRev

\* bytes.decode('utf-8', errors='replace') of a whole byte sequence, for the
\* bytes of the model: ASCII, continuation bytes and the lead bytes of
\* two-byte characters. A lead byte followed by a continuation byte is one
\* character; a byte that starts no character is one replacement character.
IsContinuation(b) == b \in 128..191
IsLead2(b) == b \in 194..223
Decode2(b1, b2) == IF b1 = 195 /\ b2 = 169 THEN "U+00E9" ELSE "U+0080..U+07FF"
RECURSIVE utf8_decode(_)
utf8_decode(bs) ==
    IF bs = <<>> THEN <<>>
    ELSE IF Head(bs) < 128
         THEN <<Decode1(Head(bs))>> \o utf8_decode(Tail(bs))
    ELSE IF IsLead2(Head(bs)) /\ Len(bs) >= 2 /\ IsContinuation(bs[2])
         THEN <<Decode2(bs[1], bs[2])>> \o utf8_decode(Tail(Tail(bs)))
    ELSE <<"U+FFFD">> \o utf8_decode(Tail(bs))

\* C36: the text send_command returns on a serial connector is the UTF-8
\* decoding of the bytes it received, taken as a whole sequence: a valid
\* character of several bytes appears as that character, and each byte that
\* cannot be decoded as one replacement character.
C36_ResponseIsUtf8Decoding ==
    (SentOk /\ objs[1].kind = "serial") => last.text = utf8_decode(last.consumed)

====
